---------------------------- MODULE Spec2Model ----------------------------
(***************************************************************************)
(* bledger: the Ledger signing orchestrator (LedgerBcoin, lib/bcoin.js)    *)
(* and its input descriptor (LedgerTXInput, lib/txinput.js).               *)
(*                                                                         *)
(* Nullable JavaScript values are sets of at most one element: {} is       *)
(* null/undefined, {v} is the value v.                                     *)
(***************************************************************************)
EXTENDS Integers, Sequences, FiniteSets, TLC

\* ------------------------------------------------------------ bounds

\* signTransaction callers that share one LedgerBcoin instance.
NumSigners == 2

\* Longest transaction input list and longest descriptor list of a call.
MaxInputs == 2

\* ------------------------------------------------ program constants

\* Script.hashType.ALL, the default of LedgerTXInput.type.
SIGHASH_ALL == 1

\* ------------------------------------------------------- primitives

None == {}

Some(v) == {v}

IsSome(m) == m # {}

The(m) == CHOOSE v \in m : TRUE

Last(s) == s[Len(s)]

Front(s) == SubSeq(s, 1, Len(s) - 1)

\* The previous-output script shapes the code tells apart, as bcoin's
\* Script predicates classify them.
ScriptKinds == {"pkh", "sh", "wpkh", "wsh", "multisig", "nonstandard"}

\* The outputs of a source transaction: one of each locking script shape.
SourceOutputs == <<"pkh", "sh", "wpkh", "wsh">>

\* A source (previous) transaction, as bcoin's TX: its hash and outputs.
SourceTX(h) == [hash |-> h, outputs |-> SourceOutputs]

\* Outpoint.fromTX(tx, index).
OutpointFromTX(tx, index) == [hash |-> tx.hash, index |-> index]

\* Outpoint.toKey(): the hash followed by the index, a non-empty key.
OutpointToKey(outpoint) == <<outpoint.hash, outpoint.index>>

\* isU32(value): (value >>> 0) === value, for an integer below 2^32 in
\* magnitude (a number of another kind is the option form "bignumber").
isU32(value) == value >= 0

\* --------------------------------------------------- LedgerTXInput

\* The fields the constructor sets before reading the options.
NewLedgerTXInput ==
  [path |-> None, tx |-> None, index |-> 0, witness |-> FALSE,
   redeem |-> None, type |-> SIGHASH_ALL, publicKey |-> None,
   ring |-> None, coin |-> None, key |-> None, prev |-> None,
   outpoint |-> None]

\* An option of fromOptions: a JavaScript value by its type and content.
\* form "absent" is undefined/null.
Opt(form, v) == [form |-> form, v |-> v]

Absent == Opt("absent", 0)

\* The sigHash types a caller may pass: ALL, NONE, SINGLE.
TypeOptions == {Absent} \cup {Opt("number", t) : t \in {SIGHASH_ALL, 2, 3}}

\* options.type != null: the assertion of lines 195-198 as the code has it.
TypeAccepted(type) == type.form = "absent" \/ type.v # SIGHASH_ALL

\* fromOptions throws (an assertion fails) on these options.
FromOptionsThrows(o) ==
  \/ o.path.form \notin {"string", "array"}
  \/ o.tx.form \notin {"buffer", "TX"}
  \/ o.index.form \notin {"number", "bignumber"}
  \/ o.index.form = "bignumber"
  \/ ~isU32(o.index.v)
  \/ ~TypeAccepted(o.type)
  \/ o.redeem.form \notin {"absent", "script"}
  \/ o.publicKey.form \notin {"absent", "buffer"}

\* fromOptions(options) on a freshly constructed object, when no assertion
\* fails.  util.parsePath turns a path string into the index array and
\* TX.fromRaw a raw buffer into the transaction: both yield the content v.
FromOptions(o) ==
  [NewLedgerTXInput EXCEPT
     !.path = Some(o.path.v),
     !.tx = Some(SourceTX(o.tx.v)),
     !.index = o.index.v,
     !.type = IF o.type.form = "absent" THEN SIGHASH_ALL ELSE o.type.v,
     !.redeem = IF o.redeem.form = "absent" THEN None ELSE Some(o.redeem.v),
     !.publicKey = IF o.publicKey.form = "absent" THEN None
                   ELSE Some(o.publicKey.v),
     !.witness = IF o.witness.form = "absent" THEN FALSE
                 ELSE o.witness.v # 0]

\* getOutpoint(): the cached outpoint, computed on first use.
GetOutpoint(li) ==
  IF IsSome(li.outpoint) THEN li
  ELSE [li EXCEPT !.outpoint = Some(OutpointFromTX(The(li.tx), li.index))]

\* toKey(): the cached key, computed from the outpoint on first use.
ToKey(li) ==
  IF IsSome(li.key) THEN li
  ELSE LET lo == GetOutpoint(li)
       IN [lo EXCEPT !.key = Some(OutpointToKey(The(lo.outpoint)))]

\* getPrev(): this.tx.outputs[this.index].script, cached.
GetPrev(li) ==
  IF IsSome(li.prev) THEN li
  ELSE [li EXCEPT !.prev = Some(The(li.tx).outputs[li.index + 1])]

\* Coin.fromTX(tx, index, height): the spent output as a coin.
CoinFromTX(tx, index) ==
  [hash |-> tx.hash, index |-> index, script |-> tx.outputs[index + 1]]

\* getCoin(): the cached coin.
GetCoin(li) ==
  IF IsSome(li.coin) THEN li
  ELSE [li EXCEPT !.coin = Some(CoinFromTX(The(li.tx), li.index))]

\* getRing(network), when publicKey is set: KeyRing.fromPublic plus the
\* redeem script and the witness flag, cached.
GetRing(li) ==
  IF IsSome(li.ring) THEN li
  ELSE [li EXCEPT !.ring = Some([publicKey |-> The(li.publicKey),
                                 script |-> li.redeem,
                                 witness |-> li.witness])]

\* refresh() without line 311: the cached outpoint is kept.
RefreshKeepsOutpoint(li) ==
  [li EXCEPT !.coin = None, !.ring = None, !.key = None, !.prev = None]

\* refresh(): clears the five cached fields.
Refresh(li) ==
  [li EXCEPT !.coin = None, !.ring = None, !.key = None, !.prev = None,
             !.outpoint = None]


\* ------------------------------------------- primitives collaborator

\* A script as a stack item (Script.toRaw) ...
RawScript(kind) ==
  CASE kind = "multisig" -> "raw_multisig"
    [] kind = "wsh" -> "raw_wsh"
    [] kind = "wpkh" -> "raw_wpkh"
    [] OTHER -> "raw_other"

\* ... and read back from a stack item (Script.fromRaw): any bytes decode,
\* those of a signature, a key or an empty push as a non-standard script.
ScriptFromRaw(item) ==
  CASE item = "raw_multisig" -> "multisig"
    [] item = "raw_wsh" -> "wsh"
    [] item = "raw_wpkh" -> "wpkh"
    [] OTHER -> "nonstandard"

\* Script.getRedeem / Witness.getRedeem: the last item as a script, null
\* for an empty vector.
GetRedeem(vector) ==
  IF Len(vector) = 0 THEN None ELSE Some(ScriptFromRaw(Last(vector)))

\* MTX.scriptVector: the unsigned template of a script the ring can sign,
\* an empty signature slot per signature.
ScriptVector(kind) ==
  IF kind = "pkh" THEN <<"empty", "pk">> ELSE <<"empty", "empty">>

\* KeyRing.getRedeem(hash) for the hash of a P2SH output: the witness
\* program of a witness ring, else the ring's script.
RingRedeemScripthash(ring) ==
  IF ring.witness
    THEN Some(IF IsSome(ring.script) THEN "wsh" ELSE "wpkh")
    ELSE IF IsSome(ring.script) THEN Some("multisig") ELSE None

\* KeyRing.getRedeem(hash) for a witness script hash: the ring's script.
RingRedeemWitness(ring) ==
  IF IsSome(ring.script) THEN Some("multisig") ELSE None

\* tx.scriptInput(index, coin, ring) on one input: whether the input is
\* templated afterwards, and the input.  An input that already holds a
\* script or a witness is left as it is; match says whether the ring's key
\* and script hash to what the coin's script commits to.
ScriptInput(input, coin, ring, match) ==
  LET no == [templated |-> FALSE, input |-> input]
      yes(script, witness) ==
        [templated |-> TRUE,
         input |-> [input EXCEPT !.script = script, !.witness = witness]]
  IN IF Len(input.script) # 0 \/ Len(input.witness) # 0
       THEN [templated |-> TRUE, input |-> input]
     ELSE IF ~match THEN no
     ELSE CASE coin.script = "sh" ->
                 LET r == RingRedeemScripthash(ring)
                 IN IF r = None THEN no
                    ELSE IF The(r) = "wsh"
                      THEN yes(<<RawScript("wsh")>>,
                               ScriptVector("multisig")
                                 \o <<RawScript("multisig")>>)
                    ELSE IF The(r) = "wpkh"
                      THEN yes(<<RawScript("wpkh")>>, ScriptVector("pkh"))
                    ELSE yes(ScriptVector("multisig")
                               \o <<RawScript("multisig")>>, <<>>)
            [] coin.script = "wsh" ->
                 IF RingRedeemWitness(ring) = None THEN no
                 ELSE yes(<<>>, ScriptVector("multisig")
                                  \o <<RawScript("multisig")>>)
            [] coin.script = "wpkh" -> yes(<<>>, ScriptVector("pkh"))
            [] OTHER -> yes(ScriptVector("pkh"), <<>>)

\* The signature slot of a template: the first item of a pubkeyhash
\* vector, the item after the dummy of a multisig vector.
SigSlot(prev) == IF prev = "pkh" THEN 1 ELSE 2

\* tx.signVector(prev, stack, sig, ring): the stack with the signature in
\* its slot (unchanged when the slot is already signed), or null when the
\* script is not one the ring signs.
SignVector(prev, stack, sig, match) ==
  IF ~match \/ prev \notin {"pkh", "multisig"} \/ Len(stack) < SigSlot(prev)
    THEN None
  ELSE IF stack[SigSlot(prev)] # "empty" THEN Some(stack)
  ELSE Some([stack EXCEPT ![SigSlot(prev)] = sig])

\* ------------------------------------------------------- signInput

\* Lines 224-261: the script presented to the device, the vector that
\* receives the signature, and the redeem and witness flags.
Classify(input, coin) ==
  LET sh == coin.script = "sh"
      r1 == IF sh THEN GetRedeem(input.script) ELSE Some(coin.script)
      base == [throws |-> FALSE, prev |-> coin.script, vector |-> "script",
               redeem |-> sh, witness |-> FALSE]
  IN IF r1 = None THEN [base EXCEPT !.throws = TRUE]
     ELSE IF The(r1) = "wsh"
       THEN LET r2 == GetRedeem(input.witness)
            IN IF r2 = None THEN [base EXCEPT !.throws = TRUE]
               ELSE [base EXCEPT !.prev = The(r2), !.vector = "witness",
                                 !.redeem = TRUE, !.witness = TRUE]
     ELSE IF The(r1) = "wpkh"
       THEN [base EXCEPT !.prev = "pkh", !.vector = "witness",
                         !.redeem = FALSE, !.witness = TRUE]
     ELSE [base EXCEPT !.prev = The(r1)]

\* The vector of an input that signInput selected.
VectorOf(input, sel) == IF sel = "witness" THEN input.witness ELSE input.script

\* The result written to the script-sig whichever vector was selected.
WithVectorScript(input, sel, stack) == [input EXCEPT !.script = stack]

\* vector.fromStack(result) on the selected vector.
WithVector(input, sel, stack) ==
  IF sel = "witness" THEN [input EXCEPT !.witness = stack]
  ELSE [input EXCEPT !.script = stack]

\* The fold without line 293: the redeem script is not pushed back.
FoldDropsRedeem(input, si, sig, match) ==
  LET vector == VectorOf(input, si.vector)
      stack == IF si.redeem THEN Front(vector) ELSE vector
      result == SignVector(si.prev, stack, sig, match)
  IN IF result = None THEN [folded |-> FALSE, input |-> input]
     ELSE [folded |-> TRUE, input |-> WithVector(input, si.vector, The(result))]

\* Lines 284-308: fold the signature into the selected vector; the redeem
\* script is taken off the stack before tx.signVector and pushed back
\* after it.  folded is signInput's return value.
Fold(input, si, sig, match) ==
  LET vector == VectorOf(input, si.vector)
      stack == IF si.redeem THEN Front(vector) ELSE vector
      result == SignVector(si.prev, stack, sig, match)
  IN IF result = None THEN [folded |-> FALSE, input |-> input]
     ELSE [folded |-> TRUE,
           input |-> WithVector(input, si.vector,
                       IF si.redeem THEN Append(The(result), Last(vector))
                       ELSE The(result))]

\* ----------------------------------------------------------- state

VARIABLES
  busy,        \* txlock.busy: the signing lock is held
  jobs,        \* txlock.jobs: the signTransaction calls waiting for it, FIFO
  signingTX,   \* LedgerBcoin.signingTX
  pc,          \* where each signTransaction caller stands
  run,         \* the arguments and locals of each caller's run
  calls,       \* the Protocol Driver calls each caller's run has issued
  lastSigner,  \* the caller whose run issued the latest driver call, or 0
  ext,         \* the outside getPublicKey caller: "idle" or "exchange"
  input,       \* a LedgerTXInput under construction and use, or null
  options,     \* the options it was last constructed from, or null
  derived      \* its cached values: "current", "stale" once a field was
               \* assigned over them, "refreshed" once refresh() cleared those

vars == <<busy, jobs, signingTX, pc, run, calls, lastSigner, ext, input,
          options, derived>>

signVars == <<busy, jobs, signingTX, pc, run, calls, lastSigner>>

Signers == 1..NumSigners

\* A mutable transaction (MTX) or another value passed as tx.
NoInputs == <<>>

MTXOf(inputs) == [isMTX |-> TRUE, inputs |-> inputs]

NonMTX == [isMTX |-> FALSE, inputs |-> NoInputs]

\* An unsigned input spending an outpoint.
InputOf(outpoint) == [prevout |-> outpoint, script |-> <<>>, witness |-> <<>>]

NoSI == [index |-> 0, prev |-> "none", vector |-> "script",
         redeem |-> FALSE, witness |-> FALSE, isNew |-> FALSE]

\* A caller with no run: no arguments, no locals.
NoRun ==
  [tx |-> NonMTX, tx0 |-> NonMTX, lis |-> <<>>, lis0 |-> <<>>, i |-> 0,
   trustedInputs |-> <<>>, txIndexByKey |-> <<>>, hasWitness |-> FALSE,
   newtx |-> FALSE, si |-> NoSI, status |-> "none", phase |-> "none",
   foldFailed |-> FALSE]

\* The caller is between the acquisition of the lock and its release.
InRun(p) == pc[p] \notin {"idle", "waiting"}

Init ==
  /\ busy = FALSE
  /\ jobs = <<>>
  /\ signingTX = FALSE
  /\ pc = [p \in Signers |-> "idle"]
  /\ run = [p \in Signers |-> NoRun]
  /\ calls = [p \in Signers |-> <<>>]
  /\ lastSigner = 0
  /\ ext = "idle"
  /\ input = None
  /\ options = None
  /\ derived = "current"

\* ------------------------------------------------- argument universes

Outpoints == {OutpointFromTX(SourceTX(1), n) : n \in 0..(Len(SourceOutputs) - 1)}

RECURSIVE SeqsUpTo(_, _)
\* The sequences over S of length 0..n.
SeqsUpTo(S, n) ==
  IF n = 0 THEN {<<>>}
  ELSE LET shorter == SeqsUpTo(S, n - 1)
       IN shorter \cup {Append(q, x) : q \in shorter, x \in S}

Injective(q) == \A a, b \in 1..Len(q) : q[a] = q[b] => a = b

\* Transactions of 1..MaxInputs unsigned inputs with distinct prevouts.
Transactions ==
  {MTXOf([j \in 1..Len(q) |-> InputOf(q[j])]) :
     q \in {x \in SeqsUpTo(Outpoints, MaxInputs) : Len(x) > 0 /\ Injective(x)}}

\* Descriptor options a caller passes that fromOptions accepts: any output
\* of the source transaction, with or without the witness flag, an explicit
\* redeem script and a public key.
DescriptorOptions ==
  [path : {Opt("array", 1)}, tx : {Opt("TX", 1)},
   index : {Opt("number", n) : n \in 0..(Len(SourceOutputs) - 1)},
   type : {Absent},
   redeem : {Absent, Opt("script", 1)},
   publicKey : {Absent, Opt("buffer", 2)},
   witness : {Absent, Opt("boolean", 1)}]

\* The descriptors a caller holds: those constructed from such options, and
\* the one constructed without options (line 164), its fields unset.
Descriptors == {FromOptions(o) : o \in DescriptorOptions} \cup {NewLedgerTXInput}

\* The arguments of the sequential specification: any transaction (or a
\* value that is no MTX) with any list of 1..MaxInputs descriptors.
SignArgs ==
  {[tx |-> t, lis |-> l] :
     t \in Transactions \cup {NonMTX},
     l \in {x \in SeqsUpTo(Descriptors, MaxInputs) : Len(x) > 0}}

\* The arguments of the concurrent specification: plain and flagged native
\* witness inputs, the descriptors in the transaction's order.
PlainOrWitness(n) ==
  FromOptions([path |-> Opt("array", 1), tx |-> Opt("TX", 1),
               index |-> Opt("number", n), type |-> Absent,
               redeem |-> Absent, publicKey |-> Absent,
               witness |-> IF n = 2 THEN Opt("boolean", 1) ELSE Absent])

ConcArgs ==
  {[tx |-> NonMTX, lis |-> <<PlainOrWitness(0)>>]} \cup
  {[tx |-> MTXOf([j \in 1..Len(q) |->
                    InputOf(OutpointFromTX(SourceTX(1), q[j]))]),
    lis |-> [j \in 1..Len(q) |-> PlainOrWitness(q[j])]] :
     q \in {x \in SeqsUpTo({0, 2}, MaxInputs) : Len(x) > 0 /\ Injective(x)}}

\* ------------------------------------------------- Protocol Driver

\* What the device returns as the public key of a path; an unset path is
\* the empty array, the path of the master key.
DeviceKey(path) == IF IsSome(path) THEN The(path) ELSE 0

\* The trusted-input token the device issues for an output.
TrustedInputOf(tx, index) == [token |-> <<tx.hash, index>>]

\* A driver call of p's run for descriptor li (0: for the whole
\* transaction), as the driver sees it.
Call(op, li, key, isNew, ok) ==
  [op |-> op, li |-> li, key |-> key, isNew |-> isNew, ok |-> ok]

Issue(p, call) ==
  /\ calls' = [calls EXCEPT ![p] = Append(@, call)]
  /\ lastSigner' = p

\* An exception leaves _signTransaction: the finally block runs next.
Throw(p, r, phase) ==
  /\ run' = [run EXCEPT ![p] = [r EXCEPT !.status = "threw", !.phase = phase]]
  /\ pc' = [pc EXCEPT ![p] = "finally"]

\* ------------------------------------------------- signTransaction

\* signTransaction calling _signTransaction without asking for the lock.
SignTransactionUnlocked(p) ==
  /\ pc[p] = "idle"
  /\ pc' = [pc EXCEPT ![p] = "locked"]
  /\ UNCHANGED <<busy, jobs, signingTX, run, calls, lastSigner, ext, input,
                 options, derived>>

\* signTransaction, line 118: txlock.lock().  A free lock is taken and the
\* call goes on; a busy lock queues the call.
SignTransaction(p) ==
  /\ pc[p] = "idle"
  /\ IF busy
       THEN /\ jobs' = Append(jobs, p)
            /\ pc' = [pc EXCEPT ![p] = "waiting"]
            /\ busy' = busy
       ELSE /\ busy' = TRUE
            /\ pc' = [pc EXCEPT ![p] = "locked"]
            /\ jobs' = jobs
  /\ UNCHANGED <<signingTX, run, calls, lastSigner, ext, input, options, derived>>

\* The argument check of line 138 left out.
IsMTXUnchecked(tx) == TRUE

\* MTX.isMTX(tx), line 138.
IsMTX(tx) == tx.isMTX

\* _signTransaction, lines 138-145, entered with the lock held.  The
\* arguments of the call are first read here, so this is where they are
\* drawn: a call that waits for the lock holds nothing else.
Begin(p, Args) ==
  /\ pc[p] = "locked"
  /\ \E a \in Args :
       LET r == [NoRun EXCEPT !.tx = a.tx, !.tx0 = a.tx, !.lis = a.lis,
                              !.lis0 = a.lis]
       IN IF ~IsMTX(a.tx)
            THEN /\ Throw(p, r, "argument")
                 /\ signingTX' = signingTX
            ELSE /\ signingTX' = TRUE
                 /\ run' = [run EXCEPT ![p] =
                              [r EXCEPT !.status = "running", !.i = 1]]
                 /\ pc' = [pc EXCEPT ![p] = "pubkeys"]
  /\ UNCHANGED <<busy, jobs, calls, lastSigner, ext, input, options, derived>>

\* The test of line 149 left out: the key is fetched for every descriptor.
HasPublicKeyIgnored(li) == FALSE

\* Line 149: li.publicKey is set.
HasPublicKey(li) == IsSome(li.publicKey)

\* Lines 148-153, one iteration: fetch the public key of a descriptor
\* that has none.
PublicKeys(p) ==
  /\ pc[p] = "pubkeys"
  /\ LET r == run[p]
         i == r.i
     IN IF i > Len(r.lis)
          THEN /\ run' = [run EXCEPT ![p].i = 1]
               /\ pc' = [pc EXCEPT ![p] = "trusted"]
               /\ UNCHANGED <<calls, lastSigner>>
        ELSE IF HasPublicKey(r.lis[i])
          THEN /\ run' = [run EXCEPT ![p].i = i + 1]
               /\ UNCHANGED <<pc, calls, lastSigner>>
        ELSE \E ok \in BOOLEAN :
               /\ Issue(p, Call("getPublicKey", i, <<>>, FALSE, ok))
               /\ IF ok
                    THEN /\ run' = [run EXCEPT
                                ![p].lis[i].publicKey =
                                   Some(DeviceKey(r.lis[i].path)),
                                ![p].i = i + 1]
                         /\ pc' = pc
                    ELSE Throw(p, r, "publicKey")
  /\ UNCHANGED <<busy, jobs, signingTX, ext, input, options, derived>>

\* The partition without the redeem test of lines 162-163.
SkipsWitnessOnly(li) == li.witness

\* Lines 157-163: a descriptor flagged witness or carrying a redeem script
\* gets no trusted input.
SkipsTrustedInput(li) == li.witness \/ IsSome(li.redeem)

\* Lines 172-176: the index of each transaction input by its prevout key,
\* a later input replacing an earlier one of the same key.
TxIndexByKey(tx) ==
  LET n == Len(tx.inputs)
      keys == {OutpointToKey(tx.inputs[j].prevout) : j \in 1..n}
  IN [k \in keys |->
        CHOOSE j \in 1..n :
          /\ OutpointToKey(tx.inputs[j].prevout) = k
          /\ \A m \in 1..n :
               OutpointToKey(tx.inputs[m].prevout) = k => m <= j]

\* The priming pass made whatever the descriptors are.
PrimeAlways(hasWitness) == TRUE

\* Line 180: the shared priming pass is made when a descriptor is flagged
\* witness.
PrimeNeeded(hasWitness) == hasWitness

\* Line 185: newtx once the priming pass is made.
NewtxAfterPrime == FALSE

\* newtx left as it was after a descriptor is signed.
NewtxNotCleared == TRUE

\* Line 193: newtx once a descriptor is signed.
NewtxAfterInput == FALSE

\* Lines 156-178, one iteration of the collection loop; past the last
\* descriptor, the index of lines 172-176 and newtx of line 178.  toKey()
\* of a descriptor without a source transaction throws (Outpoint.fromTX
\* reads the transaction's hash).
TrustedInputs(p) ==
  /\ pc[p] = "trusted"
  /\ LET r == run[p]
         i == r.i
     IN IF i > Len(r.lis)
          THEN /\ run' = [run EXCEPT ![p].i = 1,
                                     ![p].txIndexByKey = TxIndexByKey(r.tx),
                                     ![p].newtx = TRUE]
               /\ pc' = [pc EXCEPT ![p] =
                           IF PrimeNeeded(r.hasWitness) THEN "prime_start"
                           ELSE "sign"]
               /\ UNCHANGED <<calls, lastSigner>>
        ELSE IF SkipsTrustedInput(r.lis[i])
          THEN /\ run' = [run EXCEPT
                            ![p].hasWitness = @ \/ r.lis[i].witness,
                            ![p].i = i + 1]
               /\ UNCHANGED <<pc, calls, lastSigner>>
        ELSE IF r.lis[i].tx = None
          THEN /\ Throw(p, r, "descriptor")
               /\ UNCHANGED <<calls, lastSigner>>
        ELSE LET li == ToKey(r.lis[i])
                 pokey == The(li.key)
             IN \E ok \in BOOLEAN :
                  /\ Issue(p, Call("getTrustedInput", i, pokey, FALSE, ok))
                  /\ IF ok
                       THEN /\ run' = [run EXCEPT
                                   ![p].lis[i] = li,
                                   ![p].trustedInputs =
                                      (pokey :> TrustedInputOf(The(li.tx),
                                                               li.index)) @@ @,
                                   ![p].i = i + 1]
                            /\ pc' = pc
                       ELSE Throw(p, [r EXCEPT !.lis[i] = li], "trustedInput")
  /\ UNCHANGED <<busy, jobs, signingTX, ext, input, options, derived>>

\* Line 182: hashTransactionStart(tx, {}, true, true).
PrimeStart(p) ==
  /\ pc[p] = "prime_start"
  /\ \E ok \in BOOLEAN :
       /\ Issue(p, Call("hashTransactionStart", 0, <<>>, TRUE, ok))
       /\ IF ok
            THEN /\ pc' = [pc EXCEPT ![p] = "prime_finalize"]
                 /\ run' = run
            ELSE Throw(p, run[p], "hashing")
  /\ UNCHANGED <<busy, jobs, signingTX, ext, input, options, derived>>

\* Lines 183-185: hashOutputFinalize(tx), then newtx = false.
PrimeFinalize(p) ==
  /\ pc[p] = "prime_finalize"
  /\ \E ok \in BOOLEAN :
       /\ Issue(p, Call("hashOutputFinalize", 0, <<>>, FALSE, ok))
       /\ IF ok
            THEN /\ pc' = [pc EXCEPT ![p] = "sign"]
                 /\ run' = [run EXCEPT ![p].newtx = NewtxAfterPrime]
            ELSE Throw(p, run[p], "hashing")
  /\ UNCHANGED <<busy, jobs, signingTX, ext, input, options, derived>>

\* The input taken at the descriptor's own position in the list.
InputIndexByPosition(r, pokey, i) == IF i <= Len(r.tx.inputs) THEN i ELSE 0

\* Line 190: txIndexByKey[pokey], 0 for undefined.  Indexes count from 1.
InputIndex(r, pokey, i) ==
  IF pokey \in DOMAIN r.txIndexByKey THEN r.txIndexByKey[pokey] ELSE 0

\* Lines 188-192 and 213-261: the next descriptor's input is looked up by
\* key, templated and classified; past the last descriptor, lines 196-198.
\* A descriptor whose key is no prevout of the transaction has no input
\* (tx.inputs[undefined]), and templating it throws.
SignInput(p) ==
  /\ pc[p] = "sign"
  /\ LET r == run[p]
         i == r.i
     IN IF i > Len(r.lis)
          THEN /\ signingTX' = FALSE
               /\ run' = [run EXCEPT ![p].status = "returned"]
               /\ pc' = [pc EXCEPT ![p] = "finally"]
        ELSE
          LET li == GetCoin(GetRing(ToKey(r.lis[i])))
              pokey == The(li.key)
              index == InputIndex(r, pokey, i)
              rl == [r EXCEPT !.lis[i] = li]
          IN /\ signingTX' = signingTX
             /\ IF index = 0 THEN Throw(p, rl, "template")
                ELSE \E match \in BOOLEAN :
                  LET t == ScriptInput(r.tx.inputs[index], The(li.coin),
                                       The(li.ring), match)
                      rt == [rl EXCEPT !.tx.inputs[index] = t.input]
                      c == Classify(t.input, The(li.coin))
                  IN IF ~t.templated \/ c.throws
                       THEN Throw(p, rt, "template")
                       ELSE /\ run' = [run EXCEPT ![p] =
                                   [rt EXCEPT !.si =
                                      [index |-> index, prev |-> c.prev,
                                       vector |-> c.vector,
                                       redeem |-> c.redeem,
                                       witness |-> c.witness,
                                       isNew |-> r.newtx]]]
                            /\ pc' = [pc EXCEPT ![p] = "hashstart"]
  /\ UNCHANGED <<busy, jobs, calls, lastSigner, ext, input, options, derived>>

\* The nullify pass without its hashOutputFinalize.
OutputFinalizeSkipped(witness) == FALSE

\* Lines 263-276: hashOutputFinalize follows the hashing pass of an input
\* classified non-witness only.
NeedsOutputFinalize(witness) == ~witness

\* Lines 263-276: hashTransactionStartNullify for an input classified
\* non-witness, hashTransactionStartSegwit for one classified witness.
HashStart(p) ==
  /\ pc[p] = "hashstart"
  /\ LET r == run[p]
         inputKey == The(r.lis[r.i].key)
     IN \E ok \in BOOLEAN :
          /\ Issue(p, IF r.si.witness
                        THEN Call("hashTransactionStartSegwit", r.i, inputKey,
                                  FALSE, ok)
                        ELSE Call("hashTransactionStartNullify", r.i, inputKey,
                                  r.si.isNew, ok))
          /\ IF ok
               THEN /\ pc' = [pc EXCEPT ![p] =
                                IF NeedsOutputFinalize(r.si.witness)
                                  THEN "finalize" ELSE "hashsign"]
                    /\ run' = run
               ELSE Throw(p, r, "hashing")
  /\ UNCHANGED <<busy, jobs, signingTX, ext, input, options, derived>>

\* Line 273: hashOutputFinalize(tx) after the nullify pass.
HashFinalize(p) ==
  /\ pc[p] = "finalize"
  /\ \E ok \in BOOLEAN :
       /\ Issue(p, Call("hashOutputFinalize", run[p].i, <<>>, FALSE, ok))
       /\ IF ok
            THEN /\ pc' = [pc EXCEPT ![p] = "hashsign"]
                 /\ run' = run
            ELSE Throw(p, run[p], "hashing")
  /\ UNCHANGED <<busy, jobs, signingTX, ext, input, options, derived>>

\* Lines 278-308 and 192-193: hashSign, the fold of the signature into the
\* input, and the caller's loop, which drops signInput's return value and
\* goes on to the next descriptor.
HashSign(p) ==
  /\ pc[p] = "hashsign"
  /\ LET r == run[p]
     IN \E ok \in BOOLEAN :
          /\ Issue(p, Call("hashSign", r.i, <<>>, FALSE, ok))
          /\ IF ~ok THEN Throw(p, r, "hashSign")
             ELSE \E match \in BOOLEAN :
               LET f == Fold(r.tx.inputs[r.si.index], r.si, "sig", match)
               IN /\ run' = [run EXCEPT ![p] =
                               [r EXCEPT !.tx.inputs[r.si.index] = f.input,
                                         !.foldFailed = @ \/ ~f.folded,
                                         !.newtx = NewtxAfterInput,
                                         !.i = r.i + 1]]
                  /\ pc' = [pc EXCEPT ![p] = "sign"]
  /\ UNCHANGED <<busy, jobs, signingTX, ext, input, options, derived>>

\* unlock() after the awaited call instead of in a finally block: a run
\* that threw ends with the lock still held.
UnlockOnReturn(p) ==
  /\ pc[p] = "finally"
  /\ IF run[p].status = "threw"
       THEN /\ pc' = [pc EXCEPT ![p] = "idle"]
            /\ UNCHANGED <<busy, jobs>>
     ELSE IF jobs = <<>>
       THEN /\ busy' = FALSE
            /\ jobs' = jobs
            /\ pc' = [pc EXCEPT ![p] = "idle"]
       ELSE /\ busy' = TRUE
            /\ jobs' = Tail(jobs)
            /\ pc' = [pc EXCEPT ![p] = "idle", ![Head(jobs)] = "locked"]
  /\ run' = [run EXCEPT ![p] = NoRun]
  /\ calls' = [calls EXCEPT ![p] = <<>>]
  /\ UNCHANGED <<signingTX, lastSigner, ext, input, options, derived>>

\* Lines 122-124, unlock(): the lock goes to the first waiting call, or is
\* free.  The call has ended: its result is with its caller.
Finally(p) ==
  /\ pc[p] = "finally"
  /\ IF jobs = <<>>
       THEN /\ busy' = FALSE
            /\ jobs' = jobs
            /\ pc' = [pc EXCEPT ![p] = "idle"]
       ELSE /\ busy' = TRUE
            /\ jobs' = Tail(jobs)
            /\ pc' = [pc EXCEPT ![p] = "idle", ![Head(jobs)] = "locked"]
  /\ run' = [run EXCEPT ![p] = NoRun]
  /\ calls' = [calls EXCEPT ![p] = <<>>]
  /\ UNCHANGED <<signingTX, lastSigner, ext, input, options, derived>>

\* getPublicKey called from outside a signing session, lines 81-91: the
\* device exchange starts at once, no lock is asked for.
GetPublicKey ==
  /\ ext = "idle"
  /\ ext' = "exchange"
  /\ UNCHANGED <<signVars, input, options, derived>>

\* Lines 92-102: the exchange is over, the key is returned or the error
\* thrown.
GetPublicKeyDone ==
  /\ ext = "exchange"
  /\ ext' = "idle"
  /\ UNCHANGED <<signVars, input, options, derived>>

\* What a run does once it holds the lock.
Step(p, Args) ==
  \/ Begin(p, Args)
  \/ PublicKeys(p)
  \/ TrustedInputs(p)
  \/ PrimeStart(p)
  \/ PrimeFinalize(p)
  \/ SignInput(p)
  \/ HashStart(p)
  \/ HashFinalize(p)
  \/ HashSign(p)
  \/ Finally(p)

\* Concurrent callers of one instance.
Next ==
  \/ \E p \in Signers : SignTransaction(p) \/ Step(p, ConcArgs)
  \/ GetPublicKey
  \/ GetPublicKeyDone

Spec == Init /\ [][Next]_vars

\* The same under the scheduling of the event loop: a run that can go on
\* does (every device exchange ends, with a response or a timeout).
SpecLive == Spec /\ \A p \in Signers : WF_vars(Step(p, ConcArgs))

\* One caller, one call after the other, any arguments.
NextSign == SignTransaction(1) \/ Step(1, SignArgs)

SpecSign == Init /\ [][NextSign]_vars

\* --------------------------------------------- the input descriptor

\* What a caller may pass to new LedgerTXInput(options): each option
\* absent, of the expected type, or of another type.
AnyOptions ==
  [given : {TRUE},
   path : {Absent, Opt("string", 1), Opt("array", 1), Opt("number", 1)},
   tx : {Absent, Opt("TX", 1), Opt("buffer", 1), Opt("string", 1)},
   index : {Absent, Opt("string", 0), Opt("bignumber", 0)}
             \cup {Opt("number", n) : n \in {-1, 0, 1}},
   type : TypeOptions,
   redeem : {Absent, Opt("script", 1), Opt("string", 1)},
   publicKey : {Absent, Opt("buffer", 1), Opt("string", 1)},
   witness : {Absent, Opt("boolean", 0), Opt("boolean", 1)}]

\* new LedgerTXInput(), called without options.
NoOptions ==
  [given |-> FALSE, path |-> Absent, tx |-> Absent, index |-> Absent,
   type |-> Absent, redeem |-> Absent, publicKey |-> Absent,
   witness |-> Absent]

\* new LedgerTXInput(options), lines 150-218: the object, or an assertion
\* error and no object; without options (line 164) fromOptions is not
\* called.  One object is constructed and then used.
Construct(o) ==
  /\ options = None
  /\ options' = Some(o)
  /\ input' = IF ~o.given THEN Some(NewLedgerTXInput)
              ELSE IF FromOptionsThrows(o) THEN None
              ELSE Some(FromOptions(o))
  /\ derived' = "current"
  /\ UNCHANGED <<signVars, ext>>

\* The cached values an object holds.
Cached(li) == {f \in {"key", "outpoint", "prev", "coin", "ring"} : IsSome(li[f])}

\* toKey() called on the constructed object.  Without a source transaction
\* the call throws (Outpoint.fromTX reads the transaction) and leaves the
\* object as it was; so do getOutpoint, getPrev and getCoin.
CallToKey ==
  /\ IsSome(input)
  /\ IsSome(The(input).tx)
  /\ input' = Some(ToKey(The(input)))
  /\ UNCHANGED <<signVars, ext, options, derived>>

\* getOutpoint() called on it.
CallGetOutpoint ==
  /\ IsSome(input)
  /\ IsSome(The(input).tx)
  /\ input' = Some(GetOutpoint(The(input)))
  /\ UNCHANGED <<signVars, ext, options, derived>>

\* getPrev() called on it.
CallGetPrev ==
  /\ IsSome(input)
  /\ IsSome(The(input).tx)
  /\ input' = Some(GetPrev(The(input)))
  /\ UNCHANGED <<signVars, ext, options, derived>>

\* getCoin() called on it.
CallGetCoin ==
  /\ IsSome(input)
  /\ IsSome(The(input).tx)
  /\ input' = Some(GetCoin(The(input)))
  /\ UNCHANGED <<signVars, ext, options, derived>>

\* getRing() called on it; without a public key it throws, lines 286-287.
CallGetRing ==
  /\ IsSome(input)
  /\ IsSome(The(input).publicKey)
  /\ input' = Some(GetRing(The(input)))
  /\ UNCHANGED <<signVars, ext, options, derived>>

\* refresh() called on it.
CallRefresh ==
  /\ IsSome(input)
  /\ input' = Some(Refresh(The(input)))
  /\ derived' = IF derived = "stale" THEN "refreshed" ELSE derived
  /\ UNCHANGED <<signVars, ext, options>>

\* The caller assigns the public field index of an object that has a
\* source transaction: another output of it.
AssignIndex(n) ==
  /\ IsSome(input)
  /\ IsSome(The(input).tx)
  /\ n # The(input).index
  /\ input' = Some([The(input) EXCEPT !.index = n])
  /\ derived' = IF Cached(The(input)) # {} THEN "stale" ELSE derived
  /\ UNCHANGED <<signVars, ext, options>>

NextInput ==
  \/ options = None /\ \E o \in AnyOptions \cup {NoOptions} : Construct(o)
  \/ CallToKey
  \/ CallGetOutpoint
  \/ CallGetPrev
  \/ CallGetCoin
  \/ CallGetRing
  \/ CallRefresh
  \/ \E n \in {0, 1} : AssignIndex(n)

SpecInput == Init /\ [][NextInput]_vars

\* ------------------------------------------------------------ claims

\* C1.  Mutual exclusion: the driver calls of two signTransaction runs
\* never interleave.  Whenever a run that has already issued a driver call
\* issues another one, the latest driver call of any run was its own.
C1_NoInterleaving ==
  [][\A p \in Signers :
       (Len(calls'[p]) > Len(calls[p]) /\ Len(calls[p]) > 0)
         => lastSigner = p]_vars

\* C1 witness: a run has issued driver calls while another call waits for
\* the lock.
C1_Witness ==
  \E p, q \in Signers :
    /\ p # q
    /\ pc[q] = "waiting"
    /\ Len(calls[p]) > 1
    /\ lastSigner = p

\* C2.  The lock is released on every exit path: it is held only while a
\* run is in progress, and every call waiting for it acquires it.
C2_LockReleased ==
  /\ [](busy => \E p \in Signers : InRun(p))
  /\ \A p \in Signers : (pc[p] = "waiting") ~> (pc[p] = "locked")

\* C2 witness: a run that threw is about to release the lock to a waiting
\* call.
C2_Witness ==
  \E p, q \in Signers :
    /\ pc[p] = "finally"
    /\ run[p].status = "threw"
    /\ run[p].phase = "hashSign"
    /\ jobs # <<>>
    /\ Head(jobs) = q

\* The positions in p's call log of the calls of an operation.
CallsOf(p, op) == {k \in 1..Len(calls[p]) : calls[p][k].op = op}

\* Some descriptor of p's run is flagged witness.
FlaggedWitness(p) == \E j \in 1..Len(run[p].lis) : run[p].lis[j].witness

\* The key of a descriptor, from its required fields.
KeyOf(li) == OutpointToKey(OutpointFromTX(The(li.tx), li.index))

\* C3 as stated.  In every run, mixed runs included, the first
\* hashTransactionStartNullify call is passed isNew = true and every other
\* one false.
C3_FirstNullifyIsNew ==
  \A p \in Signers : \A k \in CallsOf(p, "hashTransactionStartNullify") :
    calls[p][k].isNew
      = (\A m \in CallsOf(p, "hashTransactionStartNullify") : k <= m)

\* C3 amended.  A hashTransactionStartNullify call is passed isNew = true
\* exactly when it is issued for the first descriptor of the list in a run
\* in which no descriptor is flagged witness; every other one, for a later
\* descriptor or in a run that made the priming pass, is passed false.
C3_NullifyIsNewForFirstUnprimed ==
  \A p \in Signers : \A k \in CallsOf(p, "hashTransactionStartNullify") :
    calls[p][k].isNew = (calls[p][k].li = 1 /\ ~FlaggedWitness(p))

\* C3 witness: a run without witness descriptors has issued two nullify
\* passes, the first with isNew = true and the second with false.
C3_Witness ==
  \E p \in Signers :
    \E k, m \in CallsOf(p, "hashTransactionStartNullify") :
      /\ k < m
      /\ calls[p][k].isNew
      /\ ~calls[p][m].isNew
      /\ ~FlaggedWitness(p)

\* A call of the per-input hashing and signing sequence.
PerInput(c) ==
  /\ c.li > 0
  /\ c.op \in {"hashTransactionStartNullify", "hashTransactionStartSegwit",
               "hashOutputFinalize", "hashSign"}

\* The priming pass of p's run is complete: hashTransactionStart answered,
\* hashOutputFinalize(tx) right after it answered too.
Primed(p) ==
  \E k \in CallsOf(p, "hashTransactionStart") :
    /\ calls[p][k].ok
    /\ k < Len(calls[p])
    /\ calls[p][k + 1].ok

\* C4.  The priming pass (hashTransactionStart(tx, {}, true, true), then
\* hashOutputFinalize(tx)) is issued at most once in a run and only when a
\* descriptor is flagged witness; it comes before every per-input hashing
\* call; and a run that reaches its per-input calls or returns has made it
\* exactly when a descriptor is flagged witness.
C4_PrimingOnce ==
  \A p \in Signers :
    LET cs == calls[p]
    IN /\ Cardinality(CallsOf(p, "hashTransactionStart")) <= 1
       /\ \A k \in CallsOf(p, "hashTransactionStart") :
            /\ FlaggedWitness(p)
            /\ cs[k].isNew
            /\ \A m \in 1..(k - 1) : ~PerInput(cs[m])
            /\ (cs[k].ok /\ k < Len(cs)) =>
                 (cs[k + 1].op = "hashOutputFinalize" /\ cs[k + 1].li = 0)
       /\ \A k \in CallsOf(p, "hashOutputFinalize") :
            cs[k].li = 0 => (k > 1 /\ cs[k - 1].op = "hashTransactionStart")
       /\ ((\E k \in 1..Len(cs) : PerInput(cs[k]))
             \/ run[p].status = "returned")
            => (Primed(p) <=> FlaggedWitness(p))

\* C4 witness: a run of two descriptors, both flagged witness, has returned
\* after one priming pass.
C4_Witness ==
  \E p \in Signers :
    /\ run[p].status = "returned"
    /\ Len(run[p].lis) = 2
    /\ \A j \in 1..2 : run[p].lis[j].witness
    /\ Cardinality(CallsOf(p, "hashTransactionStart")) = 1
    /\ Cardinality(CallsOf(p, "hashTransactionStartSegwit")) = 2

\* C5 as stated.  A fold that fails (tx.signVector gives no result) fails
\* the signTransaction call: the run ends there, with an error.
C5_FoldFailureFails ==
  \A p \in Signers :
    run[p].foldFailed => (pc[p] = "finally" /\ run[p].status = "threw")

\* C6 as stated.  When hashSign fails, no script or witness vector of the
\* transaction differs from what it was when signTransaction was called.
C6_HashSignFailureLeavesTx ==
  \A p \in Signers :
    (run[p].status = "threw" /\ run[p].phase = "hashSign")
      => run[p].tx = run[p].tx0

\* C7 as stated.  Construction accepts the sigHash type ALL, omitted or
\* explicit, fails for every other type, and every constructed descriptor
\* has type ALL.
C7_OnlySighashAll ==
  options # None =>
    LET o == The(options)
        allType == o.type \in {Absent, Opt("number", SIGHASH_ALL)}
        restThrows == FromOptionsThrows([o EXCEPT !.type = Absent])
    IN /\ (allType /\ ~restThrows) => IsSome(input)
       /\ ~allType => input = None
       /\ IsSome(input) => The(input).type = SIGHASH_ALL

\* C8 as stated.  The device exchange of an outside getPublicKey call is
\* never in progress while a signTransaction run is.
C8_NoExchangeDuringRun ==
  ~(ext = "exchange" /\ \E p \in Signers : InRun(p))

\* The key of the prevout of input j of p's transaction.
PrevoutKey(p, j) == OutpointToKey(run[p].tx.inputs[j].prevout)

\* While a descriptor is being hashed and signed, the input that signInput
\* works on spends the descriptor's outpoint, and the hashing call names
\* the descriptor's key.
C9_SignedAgainstOwnInput ==
  \A p \in Signers :
    /\ pc[p] \in {"hashstart", "finalize", "hashsign"} =>
         PrevoutKey(p, run[p].si.index) = KeyOf(run[p].lis[run[p].i])
    /\ \A k \in CallsOf(p, "hashTransactionStartNullify")
                  \cup CallsOf(p, "hashTransactionStartSegwit") :
         calls[p][k].key = KeyOf(run[p].lis[calls[p][k].li])

\* A step of a run changes the script or the witness of an input only for
\* the descriptor in hand, and only of the input that spends the
\* descriptor's outpoint.
C9_WritesOwnInput ==
  \A p \in Signers :
    \A j \in 1..Len(run[p].tx.inputs) :
      (/\ Len(run'[p].tx.inputs) = Len(run[p].tx.inputs)
       /\ run'[p].tx.inputs[j] # run[p].tx.inputs[j])
        => /\ run[p].i \in 1..Len(run[p].lis)
           /\ PrevoutKey(p, j) = KeyOf(run[p].lis[run[p].i])
           /\ run'[p].tx.inputs[j].prevout = run[p].tx.inputs[j].prevout

\* C9.  For any order of the descriptor list relative to the transaction's
\* inputs, each descriptor is signed against, and its signature folded
\* into, the input whose prevout key equals the descriptor's outpoint key;
\* no other input is written for it.
C9_DescriptorSignsOwnInput ==
  []C9_SignedAgainstOwnInput /\ [][C9_WritesOwnInput]_vars

\* C9 witness: a run has returned whose two descriptors are in the reverse
\* of the transaction's input order, both inputs signed.
C9_Witness ==
  \E p \in Signers :
    /\ run[p].status = "returned"
    /\ Len(run[p].lis) = 2
    /\ Len(run[p].tx.inputs) = 2
    /\ PrevoutKey(p, 2) = KeyOf(run[p].lis[1])
    /\ PrevoutKey(p, 1) = KeyOf(run[p].lis[2])
    /\ \A j \in 1..2 :
         \E v \in {run[p].tx.inputs[j].script, run[p].tx.inputs[j].witness} :
           \E n \in 1..Len(v) : v[n] = "sig"

\* The descriptors among the first n of p's list that are neither flagged
\* witness nor carry a redeem script.
NeedTrustedInput(p, n) ==
  {j \in 1..n : ~run[p].lis[j].witness /\ run[p].lis[j].redeem = None}

\* How many descriptors the collection loop of p's run has been through.
Collected(p) ==
  IF pc[p] \in {"locked", "pubkeys"} THEN 0
  ELSE IF pc[p] = "trusted" THEN run[p].i - 1
  ELSE Len(run[p].lis)

\* C10.  getTrustedInput is called for exactly the descriptors that are
\* neither flagged witness nor carry a redeem script, once each and with
\* the descriptor's outpoint key; the trusted-input map holds the token of
\* each such descriptor's previous output under its key and nothing else.
C10_TrustedInputsPartition ==
  \A p \in Signers :
    LET cs == calls[p]
        ts == CallsOf(p, "getTrustedInput")
        need == NeedTrustedInput(p, Collected(p))
        map == run[p].trustedInputs
    IN /\ \A k \in ts :
            /\ cs[k].li \in NeedTrustedInput(p, Len(run[p].lis))
            /\ cs[k].key = KeyOf(run[p].lis[cs[k].li])
            /\ \A m \in ts : cs[m].li = cs[k].li => m = k
       /\ run[p].status \in {"running", "returned"} =>
            /\ {cs[k].li : k \in ts} = need
            /\ \A k \in ts : cs[k].ok
            /\ DOMAIN map = {KeyOf(run[p].lis[j]) : j \in need}
            /\ \A j \in need :
                 map[KeyOf(run[p].lis[j])]
                   = TrustedInputOf(The(run[p].lis[j].tx), run[p].lis[j].index)

\* C10 witness: the collection phase is over for a list of a plain
\* descriptor and a descriptor with a redeem script: one token is held.
C10_Witness ==
  \E p \in Signers :
    /\ pc[p] = "sign"
    /\ Len(run[p].lis) = 2
    /\ NeedTrustedInput(p, 2) = {2}
    /\ IsSome(run[p].lis[1].redeem)
    /\ ~FlaggedWitness(p)
    /\ Cardinality(CallsOf(p, "getTrustedInput")) = 1
    /\ DOMAIN run[p].trustedInputs = {KeyOf(run[p].lis[2])}

\* A call with a transaction that is no MTX has failed at the argument
\* check: no driver call was issued for it and its descriptors are as they
\* were passed.
C11_NonMTXFailed ==
  \A p \in Signers :
    (run[p].status # "none" /\ ~run[p].tx.isMTX) =>
      /\ pc[p] = "finally"
      /\ run[p].status = "threw"
      /\ run[p].phase = "argument"
      /\ calls[p] = <<>>
      /\ run[p].lis = run[p].lis0

\* When such a call ends, the lock is free, or is held by the call that
\* waited first.
C11_NonMTXReleases ==
  \A p \in Signers :
    (pc[p] = "finally" /\ ~run[p].tx.isMTX /\ pc'[p] = "idle") =>
      IF jobs = <<>> THEN ~busy' ELSE pc'[Head(jobs)] = "locked"

\* C11.  signTransaction called with a transaction that is not a mutable
\* transaction fails without issuing any driver call and without changing
\* any descriptor, and it releases the lock.
C11_NonMTXFailsCleanly ==
  []C11_NonMTXFailed /\ [][C11_NonMTXReleases]_vars

\* C11 witness: a call with a transaction that is no MTX has thrown and is
\* about to release the lock, another call waiting for it.
C11_Witness ==
  \E p \in Signers :
    /\ pc[p] = "finally"
    /\ run[p].status = "threw"
    /\ run[p].phase = "argument"
    /\ ~run[p].tx.isMTX
    /\ Len(run[p].lis) > 0
    /\ jobs # <<>>

\* The required fields of a descriptor that have an unset value are set.
RequiredSet(li) == IsSome(li.path) /\ IsSome(li.tx)

\* C12 as stated.  Every constructed descriptor has its required fields
\* set, and no driver call is issued on behalf of a descriptor that has a
\* required field unset.
C12_UnsetNeverReachesDevice ==
  /\ IsSome(input) => RequiredSet(The(input))
  /\ \A p \in Signers : \A k \in 1..Len(calls[p]) :
       calls[p][k].li > 0 => RequiredSet(run[p].lis[calls[p][k].li])

\* The public-key loop of p's run is over.
PublicKeysDone(p) ==
  \/ pc[p] \in {"trusted", "prime_start", "prime_finalize", "sign",
                "hashstart", "finalize", "hashsign"}
  \/ run[p].status = "returned"
  \/ run[p].status = "threw" /\ run[p].phase \notin {"argument", "publicKey"}

\* C13.  A run leaves path, source transaction, output index, redeem
\* script, witness flag and sigHash type of every descriptor as they were
\* passed, and a public key that was passed is kept; getPublicKey is issued
\* only for descriptors passed without a public key, at most once each, and
\* once the public-key loop is over, exactly once for each of them, whose
\* publicKey is then the key the device returned for its path.
C13_DescriptorFieldsKept ==
  \A p \in Signers :
    LET r == run[p]
        n == Len(r.lis)
        gs == CallsOf(p, "getPublicKey")
        lacking == {j \in 1..n : r.lis0[j].publicKey = None}
    IN /\ Len(r.lis0) = n
       /\ \A j \in 1..n :
            /\ \A f \in {"path", "tx", "index", "redeem", "witness", "type"} :
                 r.lis[j][f] = r.lis0[j][f]
            /\ IsSome(r.lis0[j].publicKey) =>
                 r.lis[j].publicKey = r.lis0[j].publicKey
            /\ Cardinality({k \in gs : calls[p][k].li = j}) <= 1
       /\ \A k \in gs : calls[p][k].li \in lacking
       /\ PublicKeysDone(p) =>
            /\ {calls[p][k].li : k \in gs} = lacking
            /\ \A j \in lacking :
                 r.lis[j].publicKey = Some(DeviceKey(r.lis0[j].path))

\* C13 witness: a run has returned for a descriptor passed with a public
\* key and one passed without: one getPublicKey call, the passed key kept,
\* the other key the device's.
C13_Witness ==
  \E p \in Signers :
    /\ run[p].status = "returned"
    /\ Len(run[p].lis) = 2
    /\ run[p].lis0[1].publicKey = Some(2)
    /\ run[p].lis[1].publicKey = Some(2)
    /\ run[p].lis0[2].publicKey = None
    /\ run[p].lis[2].publicKey = Some(DeviceKey(run[p].lis[2].path))
    /\ Cardinality(CallsOf(p, "getPublicKey")) = 1

\* Every cached value of a descriptor is the value its accessor computes
\* from the descriptor's fields as they are now.
Coherent(li) ==
  /\ IsSome(li.outpoint) =>
       The(li.outpoint) = OutpointFromTX(The(li.tx), li.index)
  /\ IsSome(li.key) =>
       The(li.key) = OutpointToKey(OutpointFromTX(The(li.tx), li.index))
  /\ IsSome(li.prev) => The(li.prev) = The(li.tx).outputs[li.index + 1]
  /\ IsSome(li.coin) => The(li.coin) = CoinFromTX(The(li.tx), li.index)
  /\ IsSome(li.ring) =>
       The(li.ring) = [publicKey |-> The(li.publicKey), script |-> li.redeem,
                       witness |-> li.witness]

\* A refresh() call leaves no cached value and changes no other field.
C14_RefreshClears ==
  CallRefresh =>
    /\ Cached(The(input')) = {}
    /\ \A f \in {"path", "tx", "index", "redeem", "witness", "type",
                 "publicKey"} :
         The(input')[f] = The(input)[f]

\* An accessor call leaves its value cached.
C14_AccessorCaches ==
  /\ CallToKey => {"key", "outpoint"} \subseteq Cached(The(input'))
  /\ CallGetOutpoint => "outpoint" \in Cached(The(input'))
  /\ CallGetPrev => "prev" \in Cached(The(input'))
  /\ CallGetCoin => "coin" \in Cached(The(input'))
  /\ CallGetRing => "ring" \in Cached(The(input'))

\* C14.  refresh invalidates all derived fields together: after it the
\* cached key, outpoint, coin, keyring and previous script are all empty
\* and the required fields and publicKey are as before; and unless a field
\* was assigned over cached values with no refresh since, every value an
\* accessor has cached is the one computed from the current fields.
C14_RefreshInvalidatesAll ==
  /\ []((IsSome(input) /\ derived # "stale") => Coherent(The(input)))
  /\ [][C14_RefreshClears /\ C14_AccessorCaches]_vars

\* C14 witness: the index was assigned over cached values, refresh was
\* called, and the accessors have cached the values of the new index.
C14_Witness ==
  /\ IsSome(input)
  /\ derived = "refreshed"
  /\ The(input).index # The(options).index.v
  /\ Cached(The(input)) = {"key", "outpoint", "prev", "coin", "ring"}
  /\ The(input).key = Some(<<The(The(input).tx).hash, The(input).index>>)

\* Call k of p's log is an answered call of the operation for descriptor j.
Answered(p, k, op, j) ==
  /\ k \in 1..Len(calls[p])
  /\ calls[p][k].op = op
  /\ calls[p][k].li = j
  /\ calls[p][k].ok

\* The calls just before position k of p's log are the hashing pass of
\* descriptor j as an input classified witness, or non-witness, has it.
HashedBefore(p, k, j, witness) ==
  IF witness
    THEN Answered(p, k - 1, "hashTransactionStartSegwit", j)
    ELSE /\ Answered(p, k - 1, "hashOutputFinalize", j)
         /\ Answered(p, k - 2, "hashTransactionStartNullify", j)

\* The per-input calls of a run come in the order of the descriptor list,
\* one hashing pass and one hashSign for a descriptor, each hashSign right
\* after the hashing pass of its descriptor; a run about to issue hashSign
\* has just made the pass of the input's classification; and a run that
\* returned has issued hashSign for every descriptor.
C15_LogInOrder ==
  \A p \in Signers :
    LET cs == calls[p]
        hs == CallsOf(p, "hashSign")
    IN /\ \A k \in hs :
            /\ \E w \in BOOLEAN : HashedBefore(p, k, cs[k].li, w)
            /\ \A m \in hs : cs[m].li = cs[k].li => m = k
       /\ \A k, m \in 1..Len(cs) :
            (k < m /\ PerInput(cs[k]) /\ PerInput(cs[m])) =>
              /\ cs[k].li <= cs[m].li
              /\ (cs[k].li = cs[m].li) => (cs[k].op # cs[m].op)
       /\ pc[p] = "hashsign" =>
            HashedBefore(p, Len(cs) + 1, run[p].i, run[p].si.witness)
       /\ run[p].status = "returned" =>
            /\ {cs[k].li : k \in hs} = 1..Len(run[p].lis)
            /\ \A k \in hs : cs[k].ok

\* hashSign is issued by a run that has just made the hashing pass, for
\* the descriptor in hand.
C15_HashSignIssued ==
  \A p \in Signers :
    (/\ Len(calls'[p]) = Len(calls[p]) + 1
     /\ Last(calls'[p]).op = "hashSign")
      => /\ pc[p] = "hashsign"
         /\ Last(calls'[p]).li = run[p].i

\* C15.  Per-input protocol order: descriptors are processed in the order
\* supplied, each with exactly one hashSign in a run that returns; for an
\* input classified non-witness the hashSign comes right after
\* hashTransactionStartNullify and hashOutputFinalize for that input, for
\* one classified witness right after hashTransactionStartSegwit for that
\* input; hashSign is never issued without that pass.
C15_PerInputOrder ==
  []C15_LogInOrder /\ [][C15_HashSignIssued]_vars

\* C15 witness: a run has returned after signing an input classified
\* non-witness and then one classified witness.
C15_Witness ==
  \E p \in Signers :
    /\ run[p].status = "returned"
    /\ Len(run[p].lis) = 2
    /\ \E k \in CallsOf(p, "hashSign") :
         /\ calls[p][k].li = 1
         /\ HashedBefore(p, k, 1, FALSE)
    /\ \E k \in CallsOf(p, "hashSign") :
         /\ calls[p][k].li = 2
         /\ HashedBefore(p, k, 2, TRUE)

\* C16 as stated.  Every hashTransactionStartSegwit call of a run comes
\* after the run's priming pass, hashTransactionStart(tx, {}, true, true)
\* and hashOutputFinalize(tx), whatever the descriptor's witness flag is.
C16_SegwitAfterPriming ==
  \A p \in Signers :
    \A k \in CallsOf(p, "hashTransactionStartSegwit") :
      \E m \in CallsOf(p, "hashTransactionStart") :
        /\ m + 1 < k
        /\ calls[p][m].ok
        /\ Answered(p, m + 1, "hashOutputFinalize", 0)

\* The positions in p's call log of the calls that start a hashing pass.
HashingStarts(p) ==
  CallsOf(p, "hashTransactionStart")
    \cup CallsOf(p, "hashTransactionStartNullify")
    \cup CallsOf(p, "hashTransactionStartSegwit")

\* C17 as stated.  The first hashing call of every run begins a new
\* on-device hash: it is the priming hashTransactionStart or a
\* hashTransactionStartNullify, passed true as firstRound/isNew.
C17_FirstHashingCallIsNew ==
  \A p \in Signers :
    \A k \in HashingStarts(p) :
      (\A m \in HashingStarts(p) : k <= m) =>
        /\ calls[p][k].op \in {"hashTransactionStart",
                               "hashTransactionStartNullify"}
        /\ calls[p][k].isNew

\* The stack holds a signature.
Signed(stack) == \E n \in 1..Len(stack) : stack[n] = "sig"

\* The input p's run is hashing and signing, before a step and after it.
InputInHand(p) == run[p].tx.inputs[run[p].si.index]

InputInHandAfter(p) == run'[p].tx.inputs[run[p].si.index]

\* The step of p's run that follows an answered hashSign: the fold.
FoldStep(p) == pc[p] = "hashsign" /\ pc'[p] = "sign"

\* The fold of an input classified with a redeem script leaves the vector
\* it selected with the redeem script as its last element, as before, and
\* what it writes before that element is what tx.signVector made of the
\* stack without it.
C18_FoldKeepsRedeem ==
  \A p \in Signers :
    (FoldStep(p) /\ run[p].si.redeem) =>
      LET si == run[p].si
          before == VectorOf(InputInHand(p), si.vector)
          after == VectorOf(InputInHandAfter(p), si.vector)
      IN /\ Len(after) = Len(before)
         /\ Last(after) = Last(before)
         /\ Last(after) = RawScript(si.prev)
         /\ after # before =>
              /\ Signed(Front(after))
              /\ Some(Front(after))
                   = SignVector(si.prev, Front(before), "sig", TRUE)

\* C18.  For every input classified as P2SH or witness-P2SH, after a
\* successful fold the last element of the vector that received the
\* signature is the redeem script that was its last element before the
\* fold: it is taken off before tx.signVector and appended after it.
C18_RedeemScriptStaysLast == [][C18_FoldKeepsRedeem]_vars

\* C18 witness: a run has returned with the signature folded into the
\* script-sig of a P2SH input, the redeem script after it.
C18_Witness ==
  \E p \in Signers :
    /\ run[p].status = "returned"
    /\ \E j \in 1..Len(run[p].tx.inputs) :
         run[p].tx.inputs[j].script = <<"empty", "sig", RawScript("multisig")>>

\* The fold writes the witness of an input classified witness and the
\* script-sig of one classified non-witness, and nothing else of the
\* transaction.
C19_FoldWritesSelected ==
  \A p \in Signers :
    FoldStep(p) =>
      LET si == run[p].si
          before == InputInHand(p)
          after == InputInHandAfter(p)
      IN /\ si.vector = IF si.witness THEN "witness" ELSE "script"
         /\ si.witness =>
              /\ after.script = before.script
              /\ after.witness # before.witness => Signed(after.witness)
         /\ ~si.witness =>
              /\ after.witness = before.witness
              /\ after.script # before.script => Signed(after.script)
         /\ after.prevout = before.prevout
         /\ \A j \in 1..Len(run[p].tx.inputs) :
              j # si.index => run'[p].tx.inputs[j] = run[p].tx.inputs[j]

\* The script-sig of an input that spends a native witness-pubkeyhash
\* output is empty.
C19_NativeWitnessScriptEmpty ==
  \A p \in Signers : \A j \in 1..Len(run[p].tx.inputs) :
    SourceOutputs[run[p].tx.inputs[j].prevout.index + 1] = "wpkh"
      => run[p].tx.inputs[j].script = <<>>

\* C19.  The fold writes exactly one vector of the input: the witness for
\* an input classified witness, the script-sig left as it was (empty for a
\* native witness-pubkeyhash input), and the script-sig for an input
\* classified non-witness, the witness left as it was.
C19_FoldWritesOneVector ==
  []C19_NativeWitnessScriptEmpty /\ [][C19_FoldWritesSelected]_vars

\* C19 witness: a run has returned with the signature in the witness of a
\* native witness-pubkeyhash input whose script-sig is empty.
C19_Witness ==
  \E p \in Signers :
    /\ run[p].status = "returned"
    /\ \E j \in 1..Len(run[p].tx.inputs) :
         /\ SourceOutputs[run[p].tx.inputs[j].prevout.index + 1] = "wpkh"
         /\ run[p].tx.inputs[j].witness = <<"sig", "pk">>
         /\ run[p].tx.inputs[j].script = <<>>

\* C20 as stated.  signingTX is true only while a signTransaction run is
\* executing: it is false whenever no run is in progress, also after a run
\* that failed.
C20_SigningTXTracksRun ==
  signingTX => \E p \in Signers : InRun(p)

=============================================================================
